---- MODULE Spec2Model ----
(***************************************************************************)
(* date_header: formatting a unix timestamp as an IMF-fixdate HTTP date    *)
(* and parsing the three HTTP date grammars back to a timestamp            *)
(* (src/src/lib.rs).                                                       *)
(*                                                                         *)
(* Representation.  A byte is a number in 0..255 and a byte slice is a     *)
(* sequence of bytes; Rust's 0-based index i is the TLA+ index i+1.        *)
(* A u64 timestamp t is carried as the pair <<t / 86400, t % 86400>>       *)
(* (whole days, second of the day): TLC's integers are 32 bits wide and    *)
(* 253402300800 does not fit, while both components do.  The code itself   *)
(* splits the timestamp this way as its first step (lib.rs:38-39) and      *)
(* rebuilds it as days * 86400 + seconds as its last (lib.rs:210).         *)
(***************************************************************************)
EXTENDS Integers, Sequences, FiniteSets, TLC

(***************************************************************************)
(* Timestamps                                                              *)
(***************************************************************************)

\* The pair for the u64 value days * 86400 + secs, for any secs >= 0.
TsMake(days, secs) == <<days + (secs \div 86400), secs % 86400>>

\* a >= b on u64 timestamps.
TsGeq(a, b) == a[1] > b[1] \/ (a[1] = b[1] /\ a[2] >= b[2])

\* Unix timestamp for Jan 1st, 10000: 253402300800 = 2932897 * 86400.
YEAR_10000 == <<2932897, 0>>

(***************************************************************************)
(* Rust integer division and remainder on i64: truncation toward zero.     *)
(***************************************************************************)
TruncDiv(a, b) == IF a >= 0 THEN a \div b ELSE -((-a) \div b)

TruncRem(a, b) == a - b * TruncDiv(a, b)

(***************************************************************************)
(* format: timestamp -> civil fields (lib.rs:32-93)                        *)
(***************************************************************************)
LEAPOCH == 11017

DAYS_PER_400Y == 365 * 400 + 97

DAYS_PER_100Y == 365 * 100 + 24

DAYS_PER_4Y == 365 * 4 + 1

\* Month lengths of a year that starts on March 1st.
months == <<31, 30, 31, 30, 31, 31, 30, 31, 30, 31, 31, 29>>

\* for mon_len in months.iter() { mon += 1; if remdays < *mon_len { break; }
\* remdays -= *mon_len; }  started at table index i (1-based) with counter mon.
RECURSIVE month_loop(_, _, _)
month_loop(i, mon, remdays) ==
    IF i > Len(months) THEN [mon |-> mon, remdays |-> remdays]
    ELSE IF remdays < months[i] THEN [mon |-> mon + 1, remdays |-> remdays]
    ELSE month_loop(i + 1, mon + 1, remdays - months[i])

\* let mut qc_cycles = days / DAYS_PER_400Y; let mut remdays = days % DAYS_PER_400Y;
\* if remdays < 0 { remdays += DAYS_PER_400Y; qc_cycles -= 1; }
split_400y(days) ==
    LET rem == TruncRem(days, DAYS_PER_400Y)
    IN  IF rem < 0
        THEN [cycles |-> TruncDiv(days, DAYS_PER_400Y) - 1,
              remdays |-> rem + DAYS_PER_400Y]
        ELSE [cycles |-> TruncDiv(days, DAYS_PER_400Y), remdays |-> rem]

\* Faulty variant: without the correction at the end of a cycle.
split_cycle_nolimit(remdays, per, limit) ==
    [cycles |-> TruncDiv(remdays, per),
     remdays |-> remdays - TruncDiv(remdays, per) * per]

\* let mut c = remdays / per; if c == limit { c -= 1; } remdays -= c * per;
\* the step taken with (DAYS_PER_100Y, 4), (DAYS_PER_4Y, 25) and (365, 4).
split_cycle(remdays, per, limit) ==
    LET c == TruncDiv(remdays, per)
    IN  IF c = limit
        THEN [cycles |-> c - 1, remdays |-> remdays - (c - 1) * per]
        ELSE [cycles |-> c, remdays |-> remdays - c * per]

\* Faulty variant: the remainder left as the % of a negative number gives it.
wday_of_nofix(days) == TruncRem(3 + days, 7)

\* let mut wday = (3 + days) % 7; if wday <= 0 { wday += 7 };
wday_of(days) ==
    LET w == TruncRem(3 + days, 7)
    IN  IF w <= 0 THEN w + 7 ELSE w

\* let mon = if mon + 2 > 12 { year += 1; mon - 10 } else { mon + 2 };
\* mon and year as left by the month loop and the cycle sums.
shift_year(mon, year) ==
    IF mon + 2 > 12 THEN [mon |-> mon - 10, year |-> year + 1]
    ELSE [mon |-> mon + 2, year |-> year]

\* The civil fields format computes for timestamp t (t < YEAR_10000 or not):
\* days = (secs_since_epoch / 86400) as i64 - LEAPOCH, secs_of_day =
\* secs_since_epoch % 86400, and the cycle sums.  wday is 1..7 with
\* 1 = Monday, 7 = Sunday.
format_fields(t) ==
    LET qc == split_400y(t[1] - LEAPOCH)
        c == split_cycle(qc.remdays, DAYS_PER_100Y, 4)
        q == split_cycle(c.remdays, DAYS_PER_4Y, 25)
        y == split_cycle(q.remdays, 365, 4)
        ml == month_loop(1, 0, y.remdays)
        my == shift_year(ml.mon,
                         2000 + y.cycles + 4 * q.cycles + 100 * c.cycles
                             + 400 * qc.cycles)
    IN  [year |-> my.year, mon |-> my.mon, mday |-> ml.remdays + 1,
         hour |-> t[2] \div 3600,
         min |-> (t[2] % 3600) \div 60,
         sec |-> t[2] % 60,
         wday |-> wday_of(t[1] - LEAPOCH)]

(***************************************************************************)
(* format: civil fields -> the 29 bytes (lib.rs:95-143)                    *)
(***************************************************************************)

\* The arm of a match that the code marks unreachable!().
UNREACHABLE == <<>>

\* match wday { 1 => b"Mon", ..., 7 => b"Sun", _ => unreachable!() }
wday_name(wday) ==
    CASE wday = 1 -> <<77, 111, 110>>
      [] wday = 2 -> <<84, 117, 101>>
      [] wday = 3 -> <<87, 101, 100>>
      [] wday = 4 -> <<84, 104, 117>>
      [] wday = 5 -> <<70, 114, 105>>
      [] wday = 6 -> <<83, 97, 116>>
      [] wday = 7 -> <<83, 117, 110>>
      [] OTHER -> UNREACHABLE

\* match mon { 1 => b"Jan", ..., 12 => b"Dec", _ => unreachable!() }
month_name(mon) ==
    CASE mon = 1 -> <<74, 97, 110>>
      [] mon = 2 -> <<70, 101, 98>>
      [] mon = 3 -> <<77, 97, 114>>
      [] mon = 4 -> <<65, 112, 114>>
      [] mon = 5 -> <<77, 97, 121>>
      [] mon = 6 -> <<74, 117, 110>>
      [] mon = 7 -> <<74, 117, 108>>
      [] mon = 8 -> <<65, 117, 103>>
      [] mon = 9 -> <<83, 101, 112>>
      [] mon = 10 -> <<79, 99, 116>>
      [] mon = 11 -> <<78, 111, 118>>
      [] mon = 12 -> <<68, 101, 99>>
      [] OTHER -> UNREACHABLE

\* b"   , 00     0000 00:00:00 GMT"
TEMPLATE ==
    <<32, 32, 32, 44, 32, 48, 48, 32, 32, 32, 32, 32, 48, 48, 48, 48, 32,
      48, 48, 58, 48, 48, 58, 48, 48, 32, 71, 77, 84>>

\* x as u8
AsU8(x) == x % 256

\* b'0' + d on u8; a sum above 255 is an arithmetic overflow.
Digit(d) == 48 + AsU8(d)

\* Faulty variant: the template is not stored, only the fields are written.
write_template_skipped(buffer) == buffer

\* *buffer = *b"   , 00     0000 00:00:00 GMT"   (lib.rs:122)
write_template(buffer) == TEMPLATE

\* The assignments buffer[0] = ... to buffer[24] = ... (lib.rs:123-140), applied
\* to the buffer after the template has been stored in it.
write_fields(buffer, f, wday, month) ==
    [write_template(buffer) EXCEPT
        ![1] = wday[1], ![2] = wday[2], ![3] = wday[3],
        ![6] = Digit(f.mday \div 10), ![7] = Digit(f.mday % 10),
        ![9] = month[1], ![10] = month[2], ![11] = month[3],
        ![13] = Digit(f.year \div 1000),
        ![14] = Digit((f.year \div 100) % 10),
        ![15] = Digit((f.year \div 10) % 10),
        ![16] = Digit(f.year % 10),
        ![18] = Digit(f.hour \div 10), ![19] = Digit(f.hour % 10),
        ![21] = Digit(f.min \div 10), ![22] = Digit(f.min % 10),
        ![24] = Digit(f.sec \div 10), ![25] = Digit(f.sec % 10)]

\* Faulty variant: > in place of >=.
too_futuristic_gt(t) == TsGeq(t, YEAR_10000) /\ t # YEAR_10000

\* if secs_since_epoch >= YEAR_10000 { return Err(TooFuturistic); }
too_futuristic(t) == TsGeq(t, YEAR_10000)

\* Faulty variant: the template is stored before the range is checked.
format_template_first(t, buffer) ==
    IF too_futuristic(t)
    THEN [res |-> "TooFuturistic", buffer |-> write_template(buffer)]
    ELSE LET f == format_fields(t)
             wday == wday_name(f.wday)
             month == month_name(f.mon)
         IN  IF wday = UNREACHABLE \/ month = UNREACHABLE
             THEN [res |-> "Panic", buffer |-> buffer]
             ELSE LET out == write_fields(buffer, f, wday, month)
                  IN  IF \E i \in 1..29 : out[i] > 255
                      THEN [res |-> "Panic", buffer |-> buffer]
                      ELSE [res |-> "Ok", buffer |-> out]

\* format(secs_since_epoch, buffer): the result and the buffer afterwards.
\* res is "Ok", "TooFuturistic", or "Panic" (an unreachable!() arm, or a u8
\* overflow in b'0' + digit).
format(t, buffer) ==
    IF too_futuristic(t) THEN [res |-> "TooFuturistic", buffer |-> buffer]
    ELSE LET f == format_fields(t)
             wday == wday_name(f.wday)
             month == month_name(f.mon)
         IN  IF wday = UNREACHABLE \/ month = UNREACHABLE
             THEN [res |-> "Panic", buffer |-> buffer]
             ELSE LET out == write_fields(buffer, f, wday, month)
                  IN  IF \E i \in 1..29 : out[i] > 255
                      THEN [res |-> "Panic", buffer |-> buffer]
                      ELSE [res |-> "Ok", buffer |-> out]

(***************************************************************************)
(* Byte slices (Rust indices are 0-based; an out-of-bounds index or        *)
(* range panics)                                                           *)
(***************************************************************************)

\* s[i]
Idx(s, i) == s[i + 1]

\* s[i] does not panic
CanIdx(s, i) == i < Len(s)

\* &s[a..b]
Sl(s, a, b) == SubSeq(s, a + 1, b)

\* &s[a..b] does not panic
CanSl(s, a, b) == a <= b /\ b <= Len(s)

\* s.starts_with(prefix)
starts_with(s, prefix) ==
    Len(s) >= Len(prefix) /\ SubSeq(s, 1, Len(prefix)) = prefix

\* b" GMT"
GMT == <<32, 71, 77, 84>>

(***************************************************************************)
(* Digit decoding (lib.rs:391-424).  A Result<u8/u16, InvalidDate> is the  *)
(* number for Ok(number) and NoInt for Err(InvalidDate).                   *)
(***************************************************************************)
NoInt == 0 - 1

\* x.wrapping_sub(b'0') on u8
wrapping_sub_0(x) == (x + 256 - 48) % 256

toint_1(x) ==
    LET result == wrapping_sub_0(x)
    IN  IF result < 10 THEN result ELSE NoInt

\* Faulty variant: only the high digit is checked.
toint_2_lowunchecked(s) ==
    LET high == wrapping_sub_0(s[1])
        low == wrapping_sub_0(s[2])
    IN  IF high < 10 THEN high * 10 + low ELSE NoInt

\* s is a slice of 2 bytes
toint_2(s) ==
    LET high == wrapping_sub_0(s[1])
        low == wrapping_sub_0(s[2])
    IN  IF high < 10 /\ low < 10 THEN high * 10 + low ELSE NoInt

\* s is a slice of 4 bytes
toint_4(s) ==
    LET a == wrapping_sub_0(s[1])
        b == wrapping_sub_0(s[2])
        c == wrapping_sub_0(s[3])
        d == wrapping_sub_0(s[4])
    IN  IF a < 10 /\ b < 10 /\ c < 10 /\ d < 10
        THEN a * 1000 + b * 100 + c * 10 + d
        ELSE NoInt

(***************************************************************************)
(* Name tables of the three grammars.  The three match blocks on the month *)
(* differ only in the bytes around the name, the three on the weekday only *)
(* in the name's spelling and the bytes after it.                          *)
(***************************************************************************)
MonthAbbr ==
    << <<74, 97, 110>>, <<70, 101, 98>>, <<77, 97, 114>>, <<65, 112, 114>>,
       <<77, 97, 121>>, <<74, 117, 110>>, <<74, 117, 108>>, <<65, 117, 103>>,
       <<83, 101, 112>>, <<79, 99, 116>>, <<78, 111, 118>>, <<68, 101, 99>> >>

\* Sun, Mon, ..., Sat: index w + 1 holds the name of weekday w (0 = Sunday).
WeekdayAbbr ==
    << <<83, 117, 110>>, <<77, 111, 110>>, <<84, 117, 101>>, <<87, 101, 100>>,
       <<84, 104, 117>>, <<70, 114, 105>>, <<83, 97, 116>> >>

\* Sunday, Monday, ..., Saturday
WeekdayFull ==
    << <<83, 117, 110, 100, 97, 121>>,
       <<77, 111, 110, 100, 97, 121>>,
       <<84, 117, 101, 115, 100, 97, 121>>,
       <<87, 101, 100, 110, 101, 115, 100, 97, 121>>,
       <<84, 104, 117, 114, 115, 100, 97, 121>>,
       <<70, 114, 105, 100, 97, 121>>,
       <<83, 97, 116, 117, 114, 100, 97, 121>> >>

\* match x { pre ++ "Jan" ++ post => 1, ..., pre ++ "Dec" ++ post => 12,
\*           _ => return Err(InvalidDate) }: the month, or NoInt.
match_month(x, pre, post) ==
    IF \E m \in 1..12 : x = pre \o MonthAbbr[m] \o post
    THEN CHOOSE m \in 1..12 : x = pre \o MonthAbbr[m] \o post
    ELSE NoInt

\* match x { "Sun" ++ post => 0, ..., "Sat" ++ post => 6,
\*           _ => return Err(InvalidDate) }: the weekday, or NoInt.
match_weekday(x, post) ==
    IF \E w \in 0..6 : x = WeekdayAbbr[w + 1] \o post
    THEN CHOOSE w \in 0..6 : x = WeekdayAbbr[w + 1] \o post
    ELSE NoInt

(***************************************************************************)
(* The three recognizers (lib.rs:229-376).  Each returns                   *)
(*   [tag |-> "Ok", date |-> HttpDate], [tag |-> "Err"] or                 *)
(*   [tag |-> "Panic"] (an out-of-bounds index or range).                  *)
(***************************************************************************)
ErrInvalidDate == [tag |-> "Err"]

Panicked == [tag |-> "Panic"]

\* HttpDate { sec, min, hour, day, mon, year, weekday } out of the decoded
\* fields, or Err(InvalidDate) when one of them failed to decode.
http_date(sec, min, hour, day, mon, year, weekday) ==
    IF NoInt \in {sec, min, hour, day, mon, year, weekday}
    THEN ErrInvalidDate
    ELSE [tag |-> "Ok",
          date |-> [sec |-> sec, min |-> min, hour |-> hour, day |-> day,
                    mon |-> mon, year |-> year, weekday |-> weekday]]

\* Faulty variant: the length is not checked.
imf_any_len(s) == FALSE

\* s.len() != 29
imf_bad_len(s) == Len(s) # 29

\* Example: `Sun, 06 Nov 1994 08:49:37 GMT`
parse_imf_fixdate(s) ==
    IF imf_bad_len(s) THEN ErrInvalidDate
    ELSE IF ~CanSl(s, 25, Len(s)) THEN Panicked
    ELSE IF Sl(s, 25, Len(s)) # GMT THEN ErrInvalidDate
    ELSE IF ~CanIdx(s, 16) THEN Panicked
    ELSE IF Idx(s, 16) # 32 THEN ErrInvalidDate
    ELSE IF ~CanIdx(s, 19) THEN Panicked
    ELSE IF Idx(s, 19) # 58 THEN ErrInvalidDate
    ELSE IF ~CanIdx(s, 22) THEN Panicked
    ELSE IF Idx(s, 22) # 58 THEN ErrInvalidDate
    ELSE IF ~CanSl(s, 0, 25) THEN Panicked
    ELSE http_date(toint_2(Sl(s, 23, 25)),
                   toint_2(Sl(s, 20, 22)),
                   toint_2(Sl(s, 17, 19)),
                   toint_2(Sl(s, 5, 7)),
                   match_month(Sl(s, 7, 12), <<32>>, <<32>>),
                   toint_4(Sl(s, 12, 16)),
                   match_weekday(Sl(s, 0, 5), <<44, 32>>))

\* if s.starts_with(b"Sunday, ") { (&s[8..], 0) } else if ... : the weekday
\* whose full name followed by ", " starts s, or NoInt.
rfc850_weekday(s) ==
    IF \E w \in 0..6 : starts_with(s, WeekdayFull[w + 1] \o <<44, 32>>)
    THEN CHOOSE w \in 0..6 : starts_with(s, WeekdayFull[w + 1] \o <<44, 32>>)
    ELSE NoInt

\* Faulty variant: the window turns one year late (<= 70 in place of < 70).
rfc850_year_pivot71(yy) == IF yy = NoInt THEN NoInt
                           ELSE IF yy <= 70 THEN yy + 2000 ELSE yy + 1900

\* if year < 70 { year += 2000 } else { year += 1900 }
rfc850_year(yy) == IF yy = NoInt THEN NoInt
                   ELSE IF yy < 70 THEN yy + 2000 ELSE yy + 1900

\* s.len() < 23
rfc850_too_short(s) == Len(s) < 23

\* The part of parse_rfc850_date after the weekday name: r is &s[n..].
rfc850_rest(r, weekday) ==
    IF Len(r) # 22 THEN ErrInvalidDate
    ELSE IF ~CanIdx(r, 12) THEN Panicked
    ELSE IF Idx(r, 12) # 58 THEN ErrInvalidDate
    ELSE IF ~CanIdx(r, 15) THEN Panicked
    ELSE IF Idx(r, 15) # 58 THEN ErrInvalidDate
    ELSE IF ~CanSl(r, 18, 22) THEN Panicked
    ELSE IF Sl(r, 18, 22) # GMT THEN ErrInvalidDate
    ELSE http_date(toint_2(Sl(r, 16, 18)),
                   toint_2(Sl(r, 13, 15)),
                   toint_2(Sl(r, 10, 12)),
                   toint_2(Sl(r, 0, 2)),
                   match_month(Sl(r, 2, 7), <<45>>, <<45>>),
                   rfc850_year(toint_2(Sl(r, 7, 9))),
                   weekday)

\* Example: `Sunday, 06-Nov-94 08:49:37 GMT`
parse_rfc850_date(s) ==
    IF rfc850_too_short(s) THEN ErrInvalidDate
    ELSE LET weekday == rfc850_weekday(s)
             n == Len(WeekdayFull[weekday + 1]) + 2
         IN  IF weekday = NoInt THEN ErrInvalidDate
             ELSE IF ~CanSl(s, n, Len(s)) THEN Panicked
             ELSE rfc850_rest(Sl(s, n, Len(s)), weekday)

\* Faulty variant: the day always read as two digits.
asctime_day_nospace(x) == toint_2(x)

\* day: { let x = &s[8..10]; if x[0] == b' ' { toint_1(x[1]) } else { toint_2(x) } }
asctime_day(x) == IF x[1] = 32 THEN toint_1(x[2]) ELSE toint_2(x)

\* s.len() != 24
asctime_bad_len(s) == Len(s) # 24

\* Example: `Sun Nov  6 08:49:37 1994`
parse_asctime(s) ==
    IF asctime_bad_len(s) THEN ErrInvalidDate
    ELSE IF ~CanIdx(s, 10) THEN Panicked
    ELSE IF Idx(s, 10) # 32 THEN ErrInvalidDate
    ELSE IF ~CanIdx(s, 13) THEN Panicked
    ELSE IF Idx(s, 13) # 58 THEN ErrInvalidDate
    ELSE IF ~CanIdx(s, 16) THEN Panicked
    ELSE IF Idx(s, 16) # 58 THEN ErrInvalidDate
    ELSE IF ~CanIdx(s, 19) THEN Panicked
    ELSE IF Idx(s, 19) # 32 THEN ErrInvalidDate
    ELSE IF ~CanSl(s, 0, 24) THEN Panicked
    ELSE http_date(toint_2(Sl(s, 17, 19)),
                   toint_2(Sl(s, 14, 16)),
                   toint_2(Sl(s, 11, 13)),
                   asctime_day(Sl(s, 8, 10)),
                   match_month(Sl(s, 4, 8), <<>>, <<32>>),
                   toint_4(Sl(s, 20, 24)),
                   match_weekday(Sl(s, 0, 4), <<32>>))

(***************************************************************************)
(* parse (lib.rs:163-219)                                                  *)
(***************************************************************************)

\* parse_imf_fixdate(header).or_else(|_| parse_rfc850_date(header))
\*                          .or_else(|_| parse_asctime(header))
recognize(header) ==
    LET imf == parse_imf_fixdate(header)
    IN  IF imf.tag # "Err" THEN imf
        ELSE LET rfc850 == parse_rfc850_date(header)
             IN  IF rfc850.tag # "Err" THEN rfc850
                 ELSE parse_asctime(header)

\* Faulty variant: a second of 60 is let through.
is_valid_sec60(date) ==
    /\ date.sec <= 60
    /\ date.min < 60
    /\ date.hour < 24
    /\ date.day > 0
    /\ date.day < 32
    /\ date.mon > 0
    /\ date.mon <= 12
    /\ date.year >= 1970
    /\ date.year <= 9999

is_valid(date) ==
    /\ date.sec < 60
    /\ date.min < 60
    /\ date.hour < 24
    /\ date.day > 0
    /\ date.day < 32
    /\ date.mon > 0
    /\ date.mon <= 12
    /\ date.year >= 1970
    /\ date.year <= 9999

\* A value of type u16
IsU16(x) == x >= 0 /\ x <= 65535

\* The terms of leap_years, on u16
leap_a(year) == (((year - 1) - 1968) \div 4)

leap_b(year) == (((year - 1) - 1900) \div 100)

leap_c(year) == (((year - 1) - 1600) \div 400)

\* let leap_years = ((date.year - 1) - 1968) / 4 - ((date.year - 1) - 1900) / 100
\*                  + ((date.year - 1) - 1600) / 400;
leap_years(year) == (leap_a(year) - leap_b(year)) + leap_c(year)

\* Some step of leap_years leaves u16.
leap_years_overflows(year) ==
    \/ ~IsU16(year - 1)
    \/ ~IsU16((year - 1) - 1968)
    \/ ~IsU16((year - 1) - 1900)
    \/ ~IsU16((year - 1) - 1600)
    \/ ~IsU16(leap_a(year) - leap_b(year))
    \/ ~IsU16(leap_years(year))

\* match date.mon { 1 => 0, 2 => 31, ..., 12 => 334, _ => unreachable!() }
ydays_before(mon) ==
    CASE mon = 1 -> 0
      [] mon = 2 -> 31
      [] mon = 3 -> 59
      [] mon = 4 -> 90
      [] mon = 5 -> 120
      [] mon = 6 -> 151
      [] mon = 7 -> 181
      [] mon = 8 -> 212
      [] mon = 9 -> 243
      [] mon = 10 -> 273
      [] mon = 11 -> 304
      [] mon = 12 -> 334
      [] OTHER -> NoInt

\* Faulty variant: the rule without its 400-year exception.
is_leap_year_no400(year) == year % 4 = 0 /\ year % 100 # 0

is_leap_year(year) ==
    year % 4 = 0 /\ (year % 100 # 0 \/ year % 400 = 0)

\* ydays after `ydays += date.day as u64; ydays -= 1; if is_leap_year
\* && date.mon > 2 { ydays += 1; }`
ydays_of(date) ==
    (ydays_before(date.mon) + date.day - 1)
        + (IF is_leap_year(date.year) /\ date.mon > 2 THEN 1 ELSE 0)

\* let days = (date.year as u64 - 1970) * 365 + leap_years as u64 + ydays;
days_of(date) ==
    (date.year - 1970) * 365 + leap_years(date.year) + ydays_of(date)

\* Some u64 subtraction on the way to days goes below zero.
days_underflows(date) ==
    \/ ydays_before(date.mon) + date.day - 1 < 0
    \/ date.year - 1970 < 0

\* let timestamp = date.sec as u64 + date.min as u64 * 60
\*                 + date.hour as u64 * 3600 + days * 86400;
timestamp_of(date) ==
    TsMake(days_of(date), date.sec + date.min * 60 + date.hour * 3600)

\* let expected_weekday = ((timestamp / 86400 + 4) % 7) as u8;
expected_weekday(timestamp) == AsU8((timestamp[1] + 4) % 7)

\* Faulty variant: the weekday the text names is not compared.
parse_valid_noweekday(date) ==
    IF ydays_before(date.mon) = NoInt THEN Panicked
    ELSE IF leap_years_overflows(date.year) \/ days_underflows(date)
    THEN Panicked
    ELSE [tag |-> "Ok", ts |-> timestamp_of(date)]

\* The part of parse after the validity check: date is an HttpDate.
\* [tag |-> "Ok", ts |-> timestamp], [tag |-> "Err"], or [tag |-> "Panic"]
\* (the unreachable!() arm of the month table, or an integer overflow).
parse_valid(date) ==
    IF ydays_before(date.mon) = NoInt THEN Panicked
    ELSE IF leap_years_overflows(date.year) \/ days_underflows(date)
    THEN Panicked
    ELSE LET timestamp == timestamp_of(date)
         IN  IF expected_weekday(timestamp) # date.weekday
             THEN ErrInvalidDate
             ELSE [tag |-> "Ok", ts |-> timestamp]

\* parse(header)
parse(header) ==
    LET r == recognize(header)
    IN  IF r.tag # "Ok" THEN r
        ELSE IF ~is_valid(r.date) THEN ErrInvalidDate
        ELSE parse_valid(r.date)

(***************************************************************************)
(* Texts of the three grammars, written as the tests write them            *)
(* (lib.rs:541-545, 566-570, 592-596): format!("{}, {:0>2} {} {} ...").    *)
(***************************************************************************)

\* The decimal digits of n >= 0, as `{}` prints them.
RECURSIVE Dec(_)
Dec(n) == IF n < 10 THEN <<48 + n>> ELSE Dec(n \div 10) \o <<48 + (n % 10)>>

\* `{:0>2}`: padded on the left with '0' to two bytes.
Pad0(n) == IF n < 10 THEN <<48>> \o Dec(n) ELSE Dec(n)

\* `{: >2}`: padded on the left with ' ' to two bytes.
PadSp(n) == IF n < 10 THEN <<32>> \o Dec(n) ELSE Dec(n)

\* "{}, {:0>2} {} {} {:0>2}:{:0>2}:{:0>2} GMT"
text_imf(w, f) ==
    WeekdayAbbr[w + 1] \o <<44, 32>> \o Pad0(f.day) \o <<32>>
        \o MonthAbbr[f.mon] \o <<32>> \o Dec(f.year) \o <<32>>
        \o Pad0(f.hour) \o <<58>> \o Pad0(f.min) \o <<58>> \o Pad0(f.sec)
        \o GMT

\* "{}, {:0>2}-{}-{:0>2} {:0>2}:{:0>2}:{:0>2} GMT"; f.year is the two-digit year
text_rfc850(w, f) ==
    WeekdayFull[w + 1] \o <<44, 32>> \o Pad0(f.day) \o <<45>>
        \o MonthAbbr[f.mon] \o <<45>> \o Pad0(f.year) \o <<32>>
        \o Pad0(f.hour) \o <<58>> \o Pad0(f.min) \o <<58>> \o Pad0(f.sec)
        \o GMT

\* "{} {} {: >2} {:0>2}:{:0>2}:{:0>2} {}"
text_asctime(w, f) ==
    WeekdayAbbr[w + 1] \o <<32>> \o MonthAbbr[f.mon] \o <<32>>
        \o PadSp(f.day) \o <<32>>
        \o Pad0(f.hour) \o <<58>> \o Pad0(f.min) \o <<58>> \o Pad0(f.sec)
        \o <<32>> \o Dec(f.year)

\* The text of grammar g ("imf", "rfc850", "asctime")
text_of(g, w, f) ==
    CASE g = "imf" -> text_imf(w, f)
      [] g = "rfc850" -> text_rfc850(w, f)
      [] g = "asctime" -> text_asctime(w, f)

\* The civil date format computes for t, as the fields of a text; the weekday
\* in the parser's numbering (0 = Sunday).
civil_of(t) ==
    LET f == format_fields(t)
    IN  [day |-> f.mday, mon |-> f.mon, year |-> f.year, hour |-> f.hour,
         min |-> f.min, sec |-> f.sec, weekday |-> f.wday % 7]

\* The same instant in the three grammars; RFC 850 keeps two digits of the year.
three_texts(t) ==
    LET c == civil_of(t)
    IN  << text_imf(c.weekday, c),
           text_rfc850(c.weekday, [c EXCEPT !.year = c.year % 100]),
           text_asctime(c.weekday, c) >>

(***************************************************************************)
(* State                                                                   *)
(***************************************************************************)
VARIABLES
    t,         \* the timestamp argument of the pending or last format call
    buffer,    \* the caller's 29-byte buffer, reused from call to call
    fres,      \* the last format call's result: "none" while it is pending
    header,    \* the byte slice last handed to parse
    pres,      \* that parse call's result; [tag |-> "none"] before it
    batch,     \* the results of a group of parse calls made together
    fields,    \* the fields and grammar a test draws to build its texts
    edits,     \* how many more bytes of header may be damaged
    calls      \* the number of format calls made on buffer so far

vars == <<t, buffer, fres, header, pres, batch, fields, edits, calls>>

NoResult == [tag |-> "none"]

NoFields == [g |-> "none"]

(***************************************************************************)
(* Inputs of the formatting runs                                           *)
(***************************************************************************)

\* The number of format calls made on one buffer
MaxCalls == 2

\* Index of the last point of the grid of timestamps over the whole range
MaxGridIdx == 19700

\* The first days after the epoch, each taken
MaxDenseDay == 800

\* Days taken on each side of a 100-year and 400-year cycle boundary, and of
\* the last representable day
EdgeWindow == 2

\* A grid over [0, YEAR_10000) and a little beyond: 149 days and 7919 seconds
\* apart, so that weekdays, months, leap positions and times of day all vary.
GridTimestamps ==
    { <<i * 149, (i * 7919) % 86400>> : i \in 0..MaxGridIdx }

\* The days around the 1st of March of every century year (the cycle
\* boundaries of the conversion), and around the last day of year 9999.
EdgeDays ==
    { d \in { LEAPOCH + k * DAYS_PER_400Y + j * DAYS_PER_100Y + e :
                k \in 0..19, j \in 0..3, e \in (0 - EdgeWindow)..EdgeWindow }
            \cup { YEAR_10000[1] + e : e \in (0 - EdgeWindow)..EdgeWindow }
      : d >= 0 }

\* The timestamps of test_parse_static (lib.rs:438-474) and of the doc
\* comments (lib.rs:24, 161)
TestTimestamps ==
    { <<9075, 31777>>, <<17076, 53051>>, <<2932896, 86399>>, <<0, 0>>,
      <<0, 1>>, <<788, 86399>>, <<789, 0>>, <<789, 1>>, <<789, 86399>>,
      <<790, 0>>, <<790, 1>>, <<2249, 86399>>, <<2250, 0>>, <<2250, 1>>,
      <<2250, 86399>>, <<2251, 0>>, <<2251, 1>>, <<11015, 86399>>,
      <<11016, 0>>, <<11016, 1>>, <<16570, 56061>> }

\* Timestamps far past year 9999, up to the largest day number the checker's
\* integers hold (u64::MAX itself, day 213503982334601, is beyond them)
FarTimestamps == { <<3000000, 0>>, <<1000000000, 43200>>, <<2147483647, 86399>> }

Timestamps ==
    GridTimestamps
        \cup ((0..MaxDenseDay) \X {0, 86399})
        \cup (EdgeDays \X {0, 1, 86399})
        \cup TestTimestamps
        \cup FarTimestamps

\* The timestamps of a second call on a buffer that holds an earlier result
ReuseTimestamps == { <<0, 0>>, <<11016, 0>>, <<2932896, 86399>>, YEAR_10000 }

\* let mut buffer = [0u8; 29], and a buffer of 0xFF bytes
InitialBuffers == { [i \in 1..29 |-> 0], [i \in 1..29 |-> 255] }

(***************************************************************************)
(* The formatting runs: format into a reused buffer, then parse what it    *)
(* wrote (test_format_props), or parse the same instant in all three       *)
(* grammars (the first three rows of test_parse_static).                   *)
(***************************************************************************)
Init ==
    /\ t \in Timestamps
    /\ buffer \in InitialBuffers
    /\ fres = "none"
    /\ header = <<>>
    /\ pres = NoResult
    /\ batch = <<>>
    /\ fields = NoFields
    /\ edits = 0
    /\ calls = 0

\* let result = format(timestamp, &mut buffer);
Format ==
    /\ fres = "none"
    /\ LET r == format(t, buffer)
       IN  /\ fres' = r.res
           /\ buffer' = r.buffer
    /\ calls' = calls + 1
    /\ UNCHANGED <<t, header, pres, batch, fields, edits>>

\* let parsed_timestamp = parse(&buffer)
ParseBuffer ==
    /\ fres = "Ok"
    /\ pres = NoResult
    /\ batch = <<>>
    /\ header' = buffer
    /\ pres' = parse(buffer)
    /\ UNCHANGED <<t, buffer, fres, batch, fields, edits, calls>>

\* parse of the instant's text in each of the three grammars
ParseGrammars ==
    /\ fres = "Ok"
    /\ pres = NoResult
    /\ batch = <<>>
    /\ LET texts == three_texts(t)
       IN  batch' = [i \in 1..3 |-> parse(texts[i])]
    /\ UNCHANGED <<t, buffer, fres, header, pres, fields, edits, calls>>

\* The caller makes another format call with the same buffer.
Reuse(t2) ==
    /\ fres # "none"
    /\ pres = NoResult
    /\ batch = <<>>
    /\ calls < MaxCalls
    /\ t' = t2
    /\ fres' = "none"
    /\ UNCHANGED <<buffer, header, pres, batch, fields, edits, calls>>

Next ==
    \/ Format
    \/ ParseBuffer
    \/ ParseGrammars
    \/ \E t2 \in ReuseTimestamps : Reuse(t2)

Spec == Init /\ [][Next]_vars

(***************************************************************************)
(* Inputs of the parsing runs                                              *)
(***************************************************************************)

\* Bytes of a text that may be damaged, cut off or added before it is parsed
MaxEdits == 1

Grammars == {"imf", "rfc850", "asctime"}

\* Days of the month a test writes: 1..=31 in the tests, and 0 and 32 beside
\* them
DayChoices == {0, 1, 2, 9, 10, 29, 31, 32}

\* Four-digit years (1970..=9999 in the tests, and earlier ones), and the
\* two-digit years of RFC 850 (70..=99 in the test, and smaller ones)
YearChoices(g) ==
    IF g = "rfc850" THEN {0, 16, 69, 70, 99}
    ELSE {1000, 1969, 1970, 1972, 2000, 2016, 2100, 9999}

\* <<hour, minute, second>>: in range, and each one past its range
TimeChoices ==
    { <<0, 0, 0>>, <<23, 59, 59>>, <<14, 44, 11>>,
      <<24, 0, 0>>, <<0, 60, 0>>, <<0, 0, 60>>, <<99, 99, 99>> }

FieldChoices ==
    { [g |-> g, day |-> d, mon |-> m, year |-> y,
       hour |-> hms[1], min |-> hms[2], sec |-> hms[3]] :
        g \in {"imf"}, d \in DayChoices, m \in 1..12, y \in YearChoices("imf"),
        hms \in TimeChoices }
    \cup
    { [g |-> g, day |-> d, mon |-> m, year |-> y,
       hour |-> hms[1], min |-> hms[2], sec |-> hms[3]] :
        g \in {"asctime"}, d \in DayChoices, m \in 1..12,
        y \in YearChoices("asctime"), hms \in TimeChoices }
    \cup
    { [g |-> g, day |-> d, mon |-> m, year |-> y,
       hour |-> hms[1], min |-> hms[2], sec |-> hms[3]] :
        g \in {"rfc850"}, d \in DayChoices, m \in 1..12,
        y \in YearChoices("rfc850"), hms \in TimeChoices }

\* 6 Nov 1994 08:49:37, as test_parse_static writes it
SeedFields ==
    [day |-> 6, mon |-> 11, year |-> 1994, hour |-> 8, min |-> 49, sec |-> 37]

\* The three texts of test_parse_static (lib.rs:440-442), and RFC 850 texts
\* with the longest and another weekday name, which are damaged before parsing
SeedTexts ==
    { text_imf(0, SeedFields),
      text_asctime(0, SeedFields),
      text_rfc850(0, [SeedFields EXCEPT !.year = 94]),
      text_rfc850(3, [SeedFields EXCEPT !.year = 94, !.day = 9]),
      text_rfc850(2, [SeedFields EXCEPT !.year = 94, !.day = 8]) }

\* The bytes written over a byte of a text or added to it: 0x00, ' ', '/'
\* (the byte before '0'), the digit '1', ':' (the byte after '9') and 0xFF
DamageBytes == {0, 32, 47, 49, 58, 255}

(***************************************************************************)
(* The parsing runs: texts built from drawn fields (test_imf_parse,        *)
(* test_rfc850_parse, test_asc_parse), and texts damaged byte by byte      *)
(* (the fail list of test_parse_static, test_invalid_bits).                *)
(***************************************************************************)
InitParse ==
    /\ t = <<0, 0>>
    /\ buffer = [i \in 1..29 |-> 0]
    /\ fres = "none"
    /\ calls = 0
    /\ pres = NoResult
    /\ batch = <<>>
    /\ \/ /\ fields \in FieldChoices
          /\ header = <<>>
          /\ edits = 0
       \/ /\ fields = NoFields
          /\ header \in SeedTexts
          /\ edits = MaxEdits

\* parse(text.as_bytes()) for the text with weekday name w
ParseOne(w) ==
    /\ fields # NoFields
    /\ header = <<>>
    /\ batch = <<>>
    /\ header' = text_of(fields.g, w, fields)
    /\ pres' = parse(header')
    /\ UNCHANGED <<t, buffer, fres, batch, fields, edits, calls>>

\* weekdays.into_iter().map(|weekday| format!(...))
\*         .map(|text| parse(text.as_bytes())).collect()
ParseWeekdays ==
    /\ fields # NoFields
    /\ header = <<>>
    /\ batch = <<>>
    /\ batch' = [i \in 1..7 |-> parse(text_of(fields.g, i - 1, fields))]
    /\ UNCHANGED <<t, buffer, fres, header, pres, fields, edits, calls>>

\* One byte of the text is overwritten.
Damage(i, b) ==
    /\ edits > 0
    /\ pres = NoResult
    /\ i \in 1..Len(header)
    /\ header' = [header EXCEPT ![i] = b]
    /\ edits' = edits - 1
    /\ UNCHANGED <<t, buffer, fres, pres, batch, fields, calls>>

\* The text is cut to its first n bytes.
Truncate(n) ==
    /\ edits > 0
    /\ pres = NoResult
    /\ n < Len(header)
    /\ header' = SubSeq(header, 1, n)
    /\ edits' = edits - 1
    /\ UNCHANGED <<t, buffer, fres, pres, batch, fields, calls>>

\* One byte is added at the end of the text.
Extend(b) ==
    /\ edits > 0
    /\ pres = NoResult
    /\ header' = Append(header, b)
    /\ edits' = edits - 1
    /\ UNCHANGED <<t, buffer, fres, pres, batch, fields, calls>>

\* parse(header) on a seed text, damaged or not
ParseHeader ==
    /\ fields = NoFields
    /\ pres = NoResult
    /\ pres' = parse(header)
    /\ UNCHANGED <<t, buffer, fres, header, batch, fields, edits, calls>>

NextParse ==
    \/ \E w \in 0..6 : ParseOne(w)
    \/ ParseWeekdays
    \/ \E i \in 1..33, b \in DamageBytes : Damage(i, b)
    \/ \E n \in 0..32 : Truncate(n)
    \/ \E b \in DamageBytes : Extend(b)
    \/ ParseHeader

SpecParse == InitParse /\ [][NextParse]_vars

(***************************************************************************)
(* Reading a 29-byte text back, for the statements about what format       *)
(* writes                                                                  *)
(***************************************************************************)

\* b is an ASCII digit
IsDigit(b) == b >= 48 /\ b <= 57

\* The number a run of ASCII digits spells
RECURSIVE DigitsValue(_)
DigitsValue(s) ==
    IF s = <<>> THEN 0
    ELSE 10 * DigitsValue(SubSeq(s, 1, Len(s) - 1)) + (s[Len(s)] - 48)

AllDigits(s) == \A i \in 1..Len(s) : IsDigit(s[i])

\* The month a 3-byte name spells, 0 if none
MonthOfName(name) ==
    IF \E m \in 1..12 : MonthAbbr[m] = name
    THEN CHOOSE m \in 1..12 : MonthAbbr[m] = name
    ELSE 0

\* The text has the fixed bytes of "Www, dd Mon yyyy HH:MM:SS GMT" and names
\* and digits in its fields.
ImfShaped(s) ==
    /\ Len(s) = 29
    /\ \E w \in 1..7 : SubSeq(s, 1, 3) = WeekdayAbbr[w]
    /\ s[4] = 44 /\ s[5] = 32
    /\ AllDigits(SubSeq(s, 6, 7))
    /\ s[8] = 32
    /\ MonthOfName(SubSeq(s, 9, 11)) # 0
    /\ s[12] = 32
    /\ AllDigits(SubSeq(s, 13, 16))
    /\ s[17] = 32
    /\ AllDigits(SubSeq(s, 18, 19))
    /\ s[20] = 58
    /\ AllDigits(SubSeq(s, 21, 22))
    /\ s[23] = 58
    /\ AllDigits(SubSeq(s, 24, 25))
    /\ SubSeq(s, 26, 29) = <<32, 71, 77, 84>>

\* The fields an ImfShaped text spells
ImfRead(s) ==
    [name |-> SubSeq(s, 1, 3),
     day |-> DigitsValue(SubSeq(s, 6, 7)),
     mon |-> MonthOfName(SubSeq(s, 9, 11)),
     year |-> DigitsValue(SubSeq(s, 13, 16)),
     hour |-> DigitsValue(SubSeq(s, 18, 19)),
     min |-> DigitsValue(SubSeq(s, 21, 22)),
     sec |-> DigitsValue(SubSeq(s, 24, 25))]

(***************************************************************************)
(* The reference calendar: the proleptic Gregorian calendar counted from   *)
(* 1970-01-01, with no use of the conversions above                        *)
(***************************************************************************)
RefIsLeap(y) == (y % 4 = 0 /\ y % 100 # 0) \/ y % 400 = 0

\* Leap years among the years 1..n
RefLeapsUpTo(n) == ((n \div 4) - (n \div 100)) + (n \div 400)

RefMonthLen(y, m) ==
    IF m = 2 THEN (IF RefIsLeap(y) THEN 29 ELSE 28)
    ELSE IF m \in {4, 6, 9, 11} THEN 30 ELSE 31

RECURSIVE RefDaysBeforeMonth(_, _)
RefDaysBeforeMonth(y, m) ==
    IF m = 1 THEN 0 ELSE RefDaysBeforeMonth(y, m - 1) + RefMonthLen(y, m - 1)

\* Days from 1970-01-01 to the existing date y-m-d
RefDays(y, m, d) ==
    (365 * (y - 1970) + (RefLeapsUpTo(y - 1) - RefLeapsUpTo(1969)))
        + RefDaysBeforeMonth(y, m) + (d - 1)

\* y-m-d is a date of the calendar, 1970 or later
RefDateExists(y, m, d) ==
    y >= 1970 /\ m \in 1..12 /\ d >= 1 /\ d <= RefMonthLen(y, m)

\* The weekday of day number days: (days + 4) mod 7 with 0 = Sunday
RefWeekday(days) == (days + 4) % 7

ZeroBuffer == [i \in 1..29 |-> 0]

\* "Fri, 31 Dec 9999 23:59:59 GMT"
TextLastSecond ==
    <<70, 114, 105, 44, 32, 51, 49, 32, 68, 101, 99, 32, 57, 57, 57, 57, 32,
      50, 51, 58, 53, 57, 58, 53, 57, 32, 71, 77, 84>>

\* "Thu, 01 Jan 1970 00:00:00 GMT"
TextEpoch ==
    <<84, 104, 117, 44, 32, 48, 49, 32, 74, 97, 110, 32, 49, 57, 55, 48, 32,
      48, 48, 58, 48, 48, 58, 48, 48, 32, 71, 77, 84>>

\* "Tue, 29 Feb 1972 00:00:00 GMT"
TextLeap1972 ==
    <<84, 117, 101, 44, 32, 50, 57, 32, 70, 101, 98, 32, 49, 57, 55, 50, 32,
      48, 48, 58, 48, 48, 58, 48, 48, 32, 71, 77, 84>>

\* "Tue, 29 Feb 2000 00:00:00 GMT"
TextLeap2000 ==
    <<84, 117, 101, 44, 32, 50, 57, 32, 70, 101, 98, 32, 50, 48, 48, 48, 32,
      48, 48, 58, 48, 48, 58, 48, 48, 32, 71, 77, 84>>

\* t is in [0, 253402300800)
InRange(ts) == ts[1] >= 0 /\ ts[1] < 2932897 /\ ts[2] >= 0 /\ ts[2] < 86400

(***************************************************************************)
(* Claims about format and the round trip, under Spec                      *)
(***************************************************************************)

\* C1: round trip.  For every timestamp t in [0, 253402300800) the format
\* call succeeds, and parsing the buffer it wrote returns Ok(t).
C1_RoundTrip ==
    /\ (fres # "none" /\ InRange(t)) => fres = "Ok"
    /\ (fres = "Ok" /\ pres.tag # "none") =>
           (header = buffer /\ pres.tag = "Ok" /\ pres.ts = t)

\* A timestamp after the leap day of 2000 has been formatted and parsed back.
C1_Witness ==
    fres = "Ok" /\ pres.tag = "Ok" /\ t = <<11017, 0>> /\ header = buffer

\* C2: format returns Err(TooFuturistic) exactly when t >= 253402300800 and
\* Ok(()) for every smaller t; format(253402300799) writes
\* "Fri, 31 Dec 9999 23:59:59 GMT" and format(253402300800) fails.
C2_TooFuturisticIff ==
    fres # "none" =>
        /\ (fres = "TooFuturistic") <=> (t[1] >= 2932897)
        /\ (t[1] < 2932897) => (fres = "Ok")
        /\ (t = <<2932896, 86399>>) => (buffer = TextLastSecond)
        /\ (t = <<2932897, 0>>) => (fres = "TooFuturistic")

\* format(253402300800) has failed on the buffer that format(253402300799)
\* filled.
C2_Witness ==
    /\ fres = "TooFuturistic"
    /\ t = <<2932897, 0>>
    /\ calls = 2
    /\ buffer = TextLastSecond

\* C3: for every t in [0, 253402300800) the text format writes spells the
\* proleptic Gregorian UTC date and time of instant t (the reference calendar
\* counts that date t div 86400 days after 1970-01-01), and the weekday name
\* of (t div 86400 + 4) mod 7 with 0 = Sunday; the documented texts of
\* 0, 68169600 and 951782400 included.
C3_CivilDate ==
    (fres = "Ok" /\ InRange(t)) =>
        /\ ImfShaped(buffer)
        /\ LET r == ImfRead(buffer)
           IN  /\ RefDateExists(r.year, r.mon, r.day)
               /\ RefDays(r.year, r.mon, r.day) = t[1]
               /\ r.hour < 24 /\ r.min < 60 /\ r.sec < 60
               /\ (r.hour * 3600 + r.min * 60) + r.sec = t[2]
               /\ r.name = WeekdayAbbr[RefWeekday(t[1]) + 1]
        /\ (t = <<0, 0>>) => (buffer = TextEpoch)
        /\ (t = <<789, 0>>) => (buffer = TextLeap1972)
        /\ (t = <<11016, 0>>) => (buffer = TextLeap2000)

\* 951782400 has been formatted as the leap day of 2000.
C3_Witness ==
    fres = "Ok" /\ t = <<11016, 0>> /\ buffer = TextLeap2000 /\ calls = 1

\* C4: for every t in [0, 253402300800) the 29 bytes format writes match
\* "Www, dd Mon yyyy HH:MM:SS GMT": a weekday and a month abbreviation, dd in
\* 00..31, yyyy in 1970..9999, HH in 00..23, MM and SS in 00..59, and the
\* literal bytes at their offsets; no unreachable!() arm is reached.
C4_Shape ==
    /\ fres # "Panic"
    /\ (fres = "Ok" /\ InRange(t)) =>
           /\ ImfShaped(buffer)
           /\ LET r == ImfRead(buffer)
              IN  /\ r.day >= 0 /\ r.day <= 31
                  /\ r.year >= 1970 /\ r.year <= 9999
                  /\ r.hour <= 23 /\ r.min <= 59 /\ r.sec <= 59

\* A day before 2000-03-01, where (3 + days) % 7 is zero or negative before
\* it is brought into 1..7, has been formatted.
C4_Witness ==
    /\ fres = "Ok"
    /\ t[1] < LEAPOCH
    /\ TruncRem((3 + t[1]) - LEAPOCH, 7) = 0
    /\ SubSeq(buffer, 1, 3) = <<83, 117, 110>>

\* C5 as stated: for every t in [0, 253402300800), the IMF-fixdate, RFC 850
\* and asctime texts of t's civil date all parse to Ok(t).
C5_AllThreeAgree ==
    (Len(batch) = 3 /\ InRange(t)) =>
        \A i \in 1..3 : batch[i].tag = "Ok" /\ batch[i].ts = t

\* C5 amended: for every t in [0, 253402300800) the IMF-fixdate and asctime
\* texts of t's civil date parse to Ok(t), and the RFC 850 text parses to
\* Ok(t) when t lies in the years 1970..2069 (t div 86400 < 36525), the only
\* years its two-digit year can name.
C5_AgreeWithinWindow ==
    (Len(batch) = 3 /\ InRange(t)) =>
        /\ batch[1].tag = "Ok" /\ batch[1].ts = t
        /\ batch[3].tag = "Ok" /\ batch[3].ts = t
        /\ (t[1] < 36525) => (batch[2].tag = "Ok" /\ batch[2].ts = t)

\* The three texts of 784111777 (6 Nov 1994, a single-digit day) have all
\* parsed to it.
C5_Witness ==
    /\ Len(batch) = 3
    /\ t = <<9075, 31777>>
    /\ \A i \in 1..3 : batch[i].tag = "Ok" /\ batch[i].ts = t

\* C10: immediately after each successful format call on a reused buffer, all
\* 29 bytes are those the call's timestamp alone determines: what the same
\* call writes into a fresh zeroed buffer.
C10_FullyOverwritten ==
    fres = "Ok" => buffer = format(t, ZeroBuffer).buffer

\* A second call has succeeded on a buffer that held another text.
C10_Witness ==
    fres = "Ok" /\ calls = 2 /\ t = <<0, 0>> /\ buffer = TextEpoch

(***************************************************************************)
(* Claims about parse, under SpecParse                                     *)
(***************************************************************************)

\* The fields a test drew are all in range: day 1..31, hour 0..23, minute and
\* second 0..59, and a year in 1970..9999 (any two-digit year for RFC 850).
DrawnInRange(f) ==
    /\ f.day >= 1 /\ f.day <= 31
    /\ f.mon >= 1 /\ f.mon <= 12
    /\ f.hour <= 23 /\ f.min <= 59 /\ f.sec <= 59
    /\ IF f.g = "rfc850" THEN f.year >= 0 /\ f.year <= 99
       ELSE f.year >= 1970 /\ f.year <= 9999

\* The decoded fields of a date are all in range.
DateInRange(d) ==
    /\ d.sec < 60 /\ d.min < 60 /\ d.hour < 24
    /\ d.day >= 1 /\ d.day <= 31
    /\ d.mon >= 1 /\ d.mon <= 12
    /\ d.year >= 1970 /\ d.year <= 9999

\* C6: for every combination of in-range fields, in each grammar, exactly one
\* of the seven texts that differ only in the weekday name is accepted; the
\* other six return Err(InvalidDate), and the accepted one returns a
\* timestamp below 253402300800.
C6_ExactlyOneWeekday ==
    (Len(batch) = 7 /\ DrawnInRange(fields)) =>
        \E w \in 1..7 :
            /\ batch[w].tag = "Ok"
            /\ InRange(batch[w].ts)
            /\ \A v \in (1..7) \ {w} : batch[v].tag = "Err"

\* The seven texts of 02 Oct 2016 14:44:11 have been parsed: "Sun" alone is
\* accepted.
C6_Witness ==
    /\ Len(batch) = 7
    /\ fields = [g |-> "imf", day |-> 2, mon |-> 10, year |-> 2016,
                 hour |-> 14, min |-> 44, sec |-> 11]
    /\ batch[1].tag = "Ok"
    /\ batch[1].ts = <<17076, 53051>>
    /\ \A v \in 2..7 : batch[v].tag = "Err"

\* C7: for every input one of the three grammars recognizes, parse returns
\* Err(InvalidDate) whenever a decoded field is out of range (second >= 60,
\* minute >= 60, hour >= 24, day = 0, day > 31 or year < 1970), whatever the
\* weekday name; it returns Ok only when every field is in range.
C7_RangeValidation ==
    /\ (pres.tag # "none" /\ recognize(header).tag = "Ok") =>
           /\ ~DateInRange(recognize(header).date) => (pres.tag = "Err")
           /\ (pres.tag = "Ok") => DateInRange(recognize(header).date)
    /\ (pres.tag # "none" /\ fields # NoFields) =>
           /\ ~DrawnInRange(fields) => (pres.tag = "Err")
           /\ (pres.tag = "Ok") => DrawnInRange(fields)

\* A recognized text with second 60, under the weekday name of its date, has
\* been rejected.
C7_Witness ==
    /\ pres.tag = "Err"
    /\ fields # NoFields
    /\ fields.g = "imf" /\ fields.sec = 60 /\ fields.min = 0 /\ fields.hour = 0
    /\ fields.year = 1970 /\ fields.mon = 1 /\ fields.day = 1
    /\ header = text_imf(4, fields)
    /\ recognize(header).tag = "Ok"

\* C8 as stated: parse returns Ok(t) for a 29-byte input only if the input is
\* byte for byte the text format writes for t; every other 29-byte input
\* returns Err(InvalidDate).
C8_OnlyFormatTexts ==
    (pres.tag # "none" /\ Len(header) = 29) =>
        IF pres.tag = "Ok"
        THEN header = format(pres.ts, ZeroBuffer).buffer
        ELSE pres.tag = "Err"

\* C8 amended: parse returns Ok(t) for a 29-byte input only if the input
\* matches the IMF-fixdate grammar with in-range fields and a matching
\* weekday name, and either is byte for byte the text format writes for t, or
\* names a day of the month (29..31) past the end of its month, t then being
\* the instant that many days after the month's first day; every other
\* 29-byte input returns Err(InvalidDate).
C8_OnlyImfTexts ==
    (pres.tag # "none" /\ Len(header) = 29) =>
        IF pres.tag = "Ok"
        THEN /\ ImfShaped(header)
             /\ LET r == ImfRead(header)
                IN  /\ DateInRange(r)
                    /\ r.name = WeekdayAbbr[RefWeekday(pres.ts[1]) + 1]
                    /\ pres.ts[1] = RefDays(r.year, r.mon, 1) + (r.day - 1)
                    /\ pres.ts[2] = (r.hour * 3600 + r.min * 60) + r.sec
                    /\ \/ header = format(pres.ts, ZeroBuffer).buffer
                       \/ /\ r.day > RefMonthLen(r.year, r.mon)
                          /\ r.day >= 29
        ELSE pres.tag = "Err"

\* "Tue, 31 Feb 1970 00:00:00 GMT" has been accepted as 3 March 1970, whose
\* text it is not.
C8_Witness ==
    /\ pres.tag = "Ok"
    /\ Len(header) = 29
    /\ fields # NoFields
    /\ fields.day = 31 /\ fields.mon = 2 /\ fields.year = 1970
    /\ pres.ts = <<61, 0>>
    /\ header # format(pres.ts, ZeroBuffer).buffer

\* C9: for byte slices of every length and every byte value, parse returns
\* Ok or Err(InvalidDate): no out-of-bounds index or range, no unreachable!()
\* arm, no integer overflow or underflow.
C9_NoPanic ==
    /\ pres.tag \in {"none", "Ok", "Err"}
    /\ \A i \in 1..Len(batch) : batch[i].tag \in {"Ok", "Err"}

\* A slice that starts with a full RFC 850 weekday name and is shorter than
\* the name plus 22 bytes has been parsed, and rejected.
C9_Witness ==
    /\ pres.tag = "Err"
    /\ starts_with(header, <<83, 117, 110, 100, 97, 121, 44, 32>>)
    /\ Len(header) >= 23
    /\ Len(header) < 30

(***************************************************************************)
(* Claims about the RFC 850 year and about a failed format call            *)
(***************************************************************************)

\* The text starts with a full weekday name and ", ": no IMF-fixdate or
\* asctime text does.
StartsRfc850(s) ==
    \E w \in 1..7 : starts_with(s, WeekdayFull[w] \o <<44, 32>>)

\* The two-digit year of an accepted RFC 850 text: the bytes 15 and 14 places
\* before its end ("yy HH:MM:SS GMT").
Rfc850TwoDigits(s) == DigitsValue(SubSeq(s, Len(s) - 14, Len(s) - 13))

\* 2000 + yy below 70, 1900 + yy from 70 on
WindowedYear(yy) == IF yy < 70 THEN 2000 + yy ELSE 1900 + yy

\* The instant ts, accepted for a text whose month and day are m and d, is
\* counted from the first day of year y, and lies in the years 1970..2069.
CountedInYear(ts, y, m, d) ==
    /\ y >= 1970 /\ y <= 2069
    /\ ts[1] = RefDays(y, m, 1) + (d - 1)
    /\ ts[1] >= RefDays(y, 1, 1) /\ ts[1] < RefDays(y + 1, 1, 1)
    /\ ts[1] >= 0 /\ ts[1] < RefDays(2070, 1, 1)

\* C11: when parse accepts an RFC 850 text its two-digit year yy is read as
\* 2000 + yy if yy < 70 and as 1900 + yy otherwise, so the timestamp lies in
\* that year, one of 1970..2069; "Sunday, 06-Nov-94 08:49:37 GMT" gives
\* 784111777.
C11_Rfc850YearWindow ==
    /\ (pres.tag = "Ok" /\ StartsRfc850(header)) =>
           /\ recognize(header).date.year
                  = WindowedYear(Rfc850TwoDigits(header))
           /\ CountedInYear(pres.ts, WindowedYear(Rfc850TwoDigits(header)),
                            recognize(header).date.mon,
                            recognize(header).date.day)
    /\ (pres.tag = "Ok" /\ fields # NoFields /\ fields.g = "rfc850") =>
           CountedInYear(pres.ts, WindowedYear(fields.year), fields.mon,
                         fields.day)
    /\ (Len(batch) = 7 /\ fields.g = "rfc850") =>
           \A w \in 1..7 :
               (batch[w].tag = "Ok") =>
                   CountedInYear(batch[w].ts, WindowedYear(fields.year),
                                 fields.mon, fields.day)
    /\ (pres.tag # "none"
            /\ header = text_rfc850(0, [SeedFields EXCEPT !.year = 94])) =>
           (pres.tag = "Ok" /\ pres.ts = <<9075, 31777>>)

\* "Sunday, 06-Nov-94 08:49:37 GMT" has been accepted as 784111777, in 1994.
C11_Witness ==
    /\ pres.tag = "Ok"
    /\ pres.ts = <<9075, 31777>>
    /\ header = <<83, 117, 110, 100, 97, 121, 44, 32, 48, 54, 45, 78, 111,
                  118, 45, 57, 52, 32, 48, 56, 58, 52, 57, 58, 51, 55, 32,
                  71, 77, 84>>

====
